---- MODULE Spec2Model ----
(***************************************************************************)
(* Model of the binary property list decoder of bplist-rs                  *)
(* (src/src/bplist/mod.rs with trailer.rs, reference_table.rs, util.rs).   *)
(*                                                                         *)
(* A file is a sequence of bytes (0..255).  BPList::load is modelled as a  *)
(* state machine: the recursion of load_item / load_array / load_dict /    *)
(* load_length is an explicit stack of frames, the file cursor is `pos`.   *)
(* Ghost variables (maxRead, seeks, items, returned, out) record what the  *)
(* decoder touched; they never influence the decoder.                      *)
(***************************************************************************)
EXTENDS Integers, Sequences, FiniteSets, TLC

VARIABLES
    file,       \* the bytes of the input file
    pos,        \* the cursor of the one open handle
    pc,         \* "magic", "trailer", "reftable", "decode", "done"
    trailer,    \* Trailer, once loaded
    reftable,   \* ReferenceTable: a function 0..n-1 -> offset
    stack,      \* the call stack of loader invocations, innermost last
    ret,        \* the Result just returned by the innermost finished call
    result,     \* what BPList::load produced (Ok / Err / Panic / ...)
    maxRead,    \* ghost: one past the highest byte index handed to a read
    seeks,      \* ghost: the targets of all seeks, in order
    items,      \* ghost: the offsets at which load_item read a marker, in order
    returned,   \* ghost: [at, v]: the call that read its marker at `at` returned Ok(v)
    out,        \* ghost: what was printed to standard output
    got         \* the last BPList::get on the loaded value: [key, res]

vars == <<file, pos, pc, trailer, reftable, stack, ret, result,
          maxRead, seeks, items, returned, out, got>>

----------------------------------------------------------------------------
(* Bounds of the model *)

\* values of 2^20 and more are identified (no file of the model is that long)
Huge == 1048576
\* the deepest call stack followed; deeper recursion is stack exhaustion
MaxDepth == 5
\* child references of generated containers range over 0..MaxRef
MaxRef == 3

----------------------------------------------------------------------------
(* Results *)

None == [k |-> "None"]
Ok(v) == [k |-> "Ok", v |-> v]
Err(e, m) == [k |-> "Err", e |-> e, m |-> m]
\* the process ends by a panic, or is aborted by the runtime
Panic(m) == [k |-> "Panic", m |-> m]
Abort(m) == [k |-> "Abort", m |-> m]

\* io::Error converted by `?` through From<io::Error>
IOErr(kind) == Err("IOError", kind)

----------------------------------------------------------------------------
(* Values: the enum BPList *)

Null == [t |-> "Null"]
Filler == [t |-> "Filler"]
Bool(b) == [t |-> "Bool", v |-> b]
\* an i64 is its 8 bytes, most significant first (two's complement)
IntV(reg) == [t |-> "Int", v |-> reg]
\* an f64 is its 8 bytes, most significant first
Real(bits) == [t |-> "Real", v |-> bits]
Data(bytes) == [t |-> "Data", v |-> bytes]
\* a String is its sequence of Unicode scalar values
Str(chars) == [t |-> "Str", v |-> chars]
UID(bytes) == [t |-> "UID", v |-> bytes]
Array(objs) == [t |-> "Array", v |-> objs]
\* a Dict is a sequence of <<key, value>> pairs
Dict(pairs) == [t |-> "Dict", v |-> pairs]

----------------------------------------------------------------------------
(* Marker type tags *)

marker_SINGLE == 0
marker_INT == 1
marker_REAL == 2
marker_DATE == 3
marker_DATA == 4
marker_ASCII_STR == 5
marker_UTF16_STR == 6
marker_UID == 8
marker_ARRAY == 10
marker_SET == 12
marker_DICT == 13

----------------------------------------------------------------------------
(* Integer helpers *)

Min(a, b) == IF a < b THEN a ELSE b

Zeros(n) == [i \in 1..n |-> 0]

\* the last n elements of s (all of s when it is shorter)
LastN(s, n) == IF Len(s) <= n THEN s ELSE SubSeq(s, Len(s) - n + 1, Len(s))

\* the big-endian number of a byte sequence, saturating at Huge: Huge is
\* below 256^3, so that a byte above the last three that is not 0 makes the
\* number Huge and the last three bytes give it otherwise
BeSat(bytes) ==
    LET n == Len(bytes)
        low(k) == IF k <= n THEN bytes[n + 1 - k] ELSE 0
    IN  IF \E k \in 1..(n - 3) : bytes[k] # 0 THEN Huge
        ELSE Min(low(3) * 65536 + low(2) * 256 + low(1), Huge)

\* a u64 of 2^63 and more (no valid seek target)
TooBig == 2 * Huge

\* the big-endian number of at most 8 bytes as a u64.  The model identifies
\* the values in Huge..2^63-1 (Huge: longer than any file, more than memory
\* holds) and the values from 2^63 on (TooBig)
BeNat(bytes) ==
    IF Len(bytes) = 8 /\ bytes[1] >= 128 THEN TooBig ELSE BeSat(bytes)

\* util::from_be_bytes: register = (register << 8) | byte, over at most 8 bytes
from_be_bytes(bytes) ==
    IF Len(bytes) > 8 THEN Panic("oops better error handling here")
    ELSE Ok(BeNat(bytes))

\* u64::from_be_bytes of an 8-byte buffer
u64_from_be_bytes(buf) == BeNat(buf)

\* the 64-bit register after  n = (n << 8) | byte  over all bytes, from 0:
\* the last 8 bytes, zero-filled on the left
Shift64(bytes) == Zeros(8 - Min(8, Len(bytes))) \o LastN(bytes, 8)

\* i64 < 0
IsNeg(reg) == reg[1] >= 128

\* a non-negative i64 as a count (saturating at Huge)
AsCount(reg) == BeSat(reg)

\* `marker_low as i64`
RegOf(n) == Zeros(7) \o <<n>>

RECURSIVE Pow2(_)
\* byte_count after  for _ in 0..marker_low { byte_count *= 2 }
Pow2(n) == IF n = 0 THEN 1 ELSE 2 * Pow2(n - 1)

----------------------------------------------------------------------------
(* Text decoding *)

IsCont(b) == b >= 128 /\ b <= 191

\* the number of bytes of the UTF-8 sequence that starts at bytes[i], 0 when
\* no well-formed sequence starts there (the rules of core::str::from_utf8)
Utf8Width(bytes, i) ==
    LET n == Len(bytes)
        b0 == bytes[i]
        b1 == IF i + 1 <= n THEN bytes[i + 1] ELSE 0
        b2 == IF i + 2 <= n THEN bytes[i + 2] ELSE 0
        b3 == IF i + 3 <= n THEN bytes[i + 3] ELSE 0
    IN  IF b0 <= 127 THEN 1
        ELSE IF b0 >= 194 /\ b0 <= 223
             THEN IF IsCont(b1) THEN 2 ELSE 0
        ELSE IF b0 >= 224 /\ b0 <= 239
             THEN IF /\ IsCont(b1) /\ IsCont(b2)
                     /\ (b0 = 224 => b1 >= 160)
                     /\ (b0 = 237 => b1 <= 159)
                  THEN 3 ELSE 0
        ELSE IF b0 >= 240 /\ b0 <= 244
             THEN IF /\ IsCont(b1) /\ IsCont(b2) /\ IsCont(b3)
                     /\ (b0 = 240 => b1 >= 144)
                     /\ (b0 = 244 => b1 <= 143)
                  THEN 4 ELSE 0
        ELSE 0

\* the scalar value of the well-formed sequence of width w at bytes[i]
Utf8Scalar(bytes, i, w) ==
    IF w = 1 THEN bytes[i]
    ELSE IF w = 2 THEN (bytes[i] - 192) * 64 + (bytes[i + 1] - 128)
    ELSE IF w = 3 THEN (bytes[i] - 224) * 4096 + (bytes[i + 1] - 128) * 64
                       + (bytes[i + 2] - 128)
    ELSE (bytes[i] - 240) * 262144 + (bytes[i + 1] - 128) * 4096
         + (bytes[i + 2] - 128) * 64 + (bytes[i + 3] - 128)

\* the scalars of bytes[i..], or <<-1>> when the bytes are not UTF-8:
\* from[j] is the scalars of bytes[j..] up to the first sequence that is not
\* well-formed, which it marks with -1
Utf8From(bytes, i) ==
    LET from[j \in 1..(Len(bytes) + 1)] ==
            IF j > Len(bytes) THEN <<>>
            ELSE LET w == Utf8Width(bytes, j)
                 IN  IF w = 0 THEN <<-1>>
                     ELSE <<Utf8Scalar(bytes, j, w)>> \o from[j + w]
        s == from[i]
    IN  IF s # <<>> /\ s[Len(s)] = -1 THEN <<-1>> ELSE s

\* util::as_utf8 (str::from_utf8)
as_utf8(buf) ==
    LET s == Utf8From(buf, 1)
    IN  IF s = <<-1>> THEN Err("EncodingError", "") ELSE Ok(s)

IsHighSurrogate(u) == u >= 55296 /\ u <= 56319
IsLowSurrogate(u) == u >= 56320 /\ u <= 57343

\* String::from_utf16 of units[i..], or <<-1>> on an unpaired surrogate:
\* from[j] is the scalars of units[j..] up to the first unpaired surrogate,
\* which it marks with -1
Utf16From(units, i) ==
    LET from[j \in 1..(Len(units) + 1)] ==
            IF j > Len(units) THEN <<>>
            ELSE IF IsHighSurrogate(units[j])
                 THEN IF j + 1 <= Len(units) /\ IsLowSurrogate(units[j + 1])
                      THEN <<65536 + (units[j] - 55296) * 1024
                             + (units[j + 1] - 56320)>> \o from[j + 2]
                      ELSE <<-1>>
            ELSE IF IsLowSurrogate(units[j]) THEN <<-1>>
            ELSE <<units[j]>> \o from[j + 1]
        s == from[i]
    IN  IF s # <<>> /\ s[Len(s)] = -1 THEN <<-1>> ELSE s

\* an as_utf16 that reports an odd length as an encoding failure
as_utf16_odd_is_encoding(buf) ==
    IF Len(buf) % 2 # 0
    THEN Err("EncodingError", "")
    ELSE LET combined_buf == [i \in 1..(Len(buf) \div 2) |->
                                 buf[2 * i - 1] * 256 + buf[2 * i]]
             s == Utf16From(combined_buf, 1)
         IN  IF s = <<-1>> THEN Err("EncodingError", "") ELSE Ok(s)

\* util::as_utf16
as_utf16(buf) ==
    IF Len(buf) % 2 # 0
    THEN Err("InvalidFormat", "utf16 buf must be even length")
    ELSE LET combined_buf == [i \in 1..(Len(buf) \div 2) |->
                                 buf[2 * i - 1] * 256 + buf[2 * i]]
             s == Utf16From(combined_buf, 1)
         IN  IF s = <<-1>> THEN Err("EncodingError", "") ELSE Ok(s)

\* a magic string with the wrong version digit
Magic_bplist01 == <<98, 112, 108, 105, 115, 116, 48, 49>>

\* the magic string "bplist00" as scalars
Magic == <<98, 112, 108, 105, 115, 116, 48, 48>>

----------------------------------------------------------------------------
(* The file handle *)

Max(a, b) == IF a < b THEN b ELSE a

\* Read::read_exact of n bytes at offset p: the bytes, or UnexpectedEof
read_exact(p, n) ==
    IF p + n <= Len(file) THEN Ok(SubSeq(file, p + 1, p + n))
    ELSE IOErr("UnexpectedEof")

\* one past the highest byte a read of n bytes at p touches
ReadEnd(p, n) ==
    IF n = 0 \/ p >= Len(file) THEN maxRead
    ELSE Max(maxRead, Min(p + n, Len(file)))

\* the cursor after `file.seek(SeekFrom::Current(0))` behind the magic
object_table_pos == 8

----------------------------------------------------------------------------
(* Structural equality and lookup *)

RECURSIVE Eq_derived(_, _)
\* the equality #[derive(PartialEq)] would give: variant by variant, also on
\* Real, Array and Dict
Eq_derived(a, b) ==
    /\ a.t = b.t
    /\ IF a.t \in {"Null", "Filler"} THEN TRUE
       ELSE IF a.t = "Array"
            THEN /\ Len(a.v) = Len(b.v)
                 /\ \A j \in 1..Len(a.v) : Eq_derived(a.v[j], b.v[j])
       ELSE IF a.t = "Dict"
            THEN /\ Len(a.v) = Len(b.v)
                 /\ \A j \in 1..Len(a.v) : /\ Eq_derived(a.v[j][1], b.v[j][1])
                                           /\ Eq_derived(a.v[j][2], b.v[j][2])
       ELSE a.v = b.v

\* impl PartialEq for BPList
Eq(a, b) ==
    IF a.t = "Null" /\ b.t = "Null" THEN TRUE
    ELSE IF a.t = "Bool" /\ b.t = "Bool" THEN a.v = b.v
    ELSE IF a.t = "Filler" /\ b.t = "Filler" THEN TRUE
    ELSE IF a.t = "Int" /\ b.t = "Int" THEN a.v = b.v
    ELSE IF a.t = "Data" /\ b.t = "Data" THEN a.v = b.v
    ELSE IF a.t = "Str" /\ b.t = "Str" THEN a.v = b.v
    ELSE IF a.t = "UID" /\ b.t = "UID" THEN a.v = b.v
    ELSE FALSE

RECURSIVE FirstMatch_last(_, _, _)
\* a lookup in which a later pair with an equal key wins
FirstMatch_last(pairs, lookup_key, i) ==
    IF i > Len(pairs) THEN Err("NotFound", "")
    ELSE LET later == FirstMatch_last(pairs, lookup_key, i + 1)
         IN  IF later.k = "Ok" THEN later
             ELSE IF Eq(pairs[i][1], lookup_key) THEN Ok(pairs[i][2])
             ELSE later

RECURSIVE FirstMatch(_, _, _)
\* the loop of get: the value of the first pair from index i on whose key
\* equals lookup_key
FirstMatch(pairs, lookup_key, i) ==
    IF i > Len(pairs) THEN Err("NotFound", "")
    ELSE IF Eq(pairs[i][1], lookup_key) THEN Ok(pairs[i][2])
    ELSE FirstMatch(pairs, lookup_key, i + 1)

\* BPList::get
get(self, lookup_key) ==
    IF self.t = "Dict" THEN FirstMatch(self.v, lookup_key, 1)
    ELSE Err("NotFound", "")

----------------------------------------------------------------------------
(* Trailer and reference table *)

NoTrailer ==
    [offset_table_offset_size |-> 0, object_ref_size |-> 0, num_objects |-> 0,
     top_object_offset |-> 0, offset_table_start |-> 0]

\* Trailer::load with the cursor at p: 6 unused bytes, two u8, three u64
Trailer_load(p) ==
    IF read_exact(p, 32).k # "Ok" THEN IOErr("UnexpectedEof")
    ELSE Ok([offset_table_offset_size |-> file[p + 7],
             object_ref_size |-> file[p + 8],
             num_objects |-> u64_from_be_bytes(SubSeq(file, p + 9, p + 16)),
             top_object_offset |-> u64_from_be_bytes(SubSeq(file, p + 17, p + 24)),
             offset_table_start |-> u64_from_be_bytes(SubSeq(file, p + 25, p + 32))])

\* ReferenceTable::load with the cursor at p: num_objects entries of
\* offset_table_offset_size bytes each, entry i under key i
ReferenceTable_load(p, tr) ==
    LET n == tr.num_objects
        w == tr.offset_table_offset_size
    IN  IF n = 0 THEN Ok(<<>>)
        ELSE IF read_exact(p, w).k # "Ok" THEN IOErr("UnexpectedEof")
        ELSE IF w > 8 THEN from_be_bytes(read_exact(p, w).v)
        ELSE IF w = 0
             THEN IF n >= Huge THEN Abort("memory exhausted")
                  ELSE Ok([i \in 0..(n - 1) |-> 0])
        ELSE IF n >= Huge \/ p + n * w > Len(file) THEN IOErr("UnexpectedEof")
        ELSE Ok([i \in 0..(n - 1) |->
                    from_be_bytes(SubSeq(file, p + i * w + 1, p + i * w + w)).v])

\* ReferenceTable::get
ReferenceTable_get(table, key) ==
    IF key \in DOMAIN table THEN Ok(table[key]) ELSE None

----------------------------------------------------------------------------
(* Leaf loaders: each gives the Result and the cursor it leaves *)

\* the mapping of the superseded decoder (bplist.rs 156-159): 0b0001 is true
load_single_0001_true(marker_low) ==
    IF marker_low = 0 THEN Ok(Null)
    ELSE IF marker_low = 8 THEN Ok(Bool(FALSE))
    ELSE IF marker_low = 1 THEN Ok(Bool(TRUE))
    ELSE IF marker_low = 15 THEN Ok(Filler)
    ELSE Err("InvalidFormat", "invalid single byte")

\* load_single
load_single(marker_low) ==
    IF marker_low = 0 THEN Ok(Null)
    ELSE IF marker_low = 8 THEN Ok(Bool(FALSE))
    ELSE IF marker_low = 9 THEN Ok(Bool(TRUE))
    ELSE IF marker_low = 15 THEN Ok(Filler)
    ELSE Err("InvalidFormat", "invalid single byte")

\* the register filled with the sign of the first byte instead of zeros
SignExt64(bytes) ==
    IF Len(bytes) >= 1 /\ Len(bytes) < 8 /\ bytes[1] >= 128
    THEN [j \in 1..(8 - Len(bytes)) |-> 255] \o bytes
    ELSE Shift64(bytes)

\* a load_int that sign-extends the widths below 8
load_int_sign_extended(p, marker_low) ==
    LET bytes == read_exact(p, Pow2(marker_low))
    IN  IF bytes.k # "Ok" THEN bytes ELSE Ok(IntV(SignExt64(bytes.v)))

\* load_int with the cursor at p
load_int(p, marker_low) ==
    LET bytes == read_exact(p, Pow2(marker_low))
    IN  IF bytes.k # "Ok" THEN bytes ELSE Ok(IntV(Shift64(bytes.v)))

\* load_real with the cursor at p
load_real(p, marker_low) ==
    LET bytes == read_exact(p, Pow2(marker_low))
    IN  IF bytes.k # "Ok" THEN bytes ELSE Ok(Real(Shift64(bytes.v)))

\* load_uid with the cursor at p
load_uid(p, marker_low) ==
    LET buf == read_exact(p, marker_low + 1)
    IN  IF buf.k # "Ok" THEN buf ELSE Ok(UID(buf.v))

----------------------------------------------------------------------------
(* BPList::load: magic, trailer, reference table *)

Frame(fn, st, at) ==
    [fn |-> fn, st |-> st, at |-> at, length |-> Zeros(8),
     refs |-> <<>>, refs2 |-> <<>>, i |-> 1, half |-> "key", key |-> Null,
     objs |-> <<>>]

\* load ends with outcome r (an Err returned, or the process crashed)
Stop(r) ==
    /\ result' = r
    /\ pc' = "done"

\* mod.rs 103-116: read and check the magic, note the cursor, seek the trailer
CheckMagic ==
    /\ pc = "magic"
    /\ LET magic_buf == read_exact(0, 8)
           magic_buf_str == as_utf8(magic_buf.v)
       IN  /\ maxRead' = ReadEnd(0, 8)
           /\ IF magic_buf.k # "Ok"
              THEN Stop(magic_buf) /\ UNCHANGED <<pos, seeks>>
              ELSE IF magic_buf_str.k # "Ok"
              THEN Stop(Err("EncodingError", "")) /\ pos' = 8 /\ UNCHANGED seeks
              ELSE IF magic_buf_str.v # Magic
              THEN /\ Stop(Err("InvalidFormat", "invalid magic string"))
                   /\ pos' = 8 /\ UNCHANGED seeks
              ELSE IF Len(file) < 32
              THEN /\ Stop(IOErr("InvalidInput"))
                   /\ pos' = 8 /\ seeks' = Append(seeks, 8)
              ELSE /\ pos' = Len(file) - 32
                   /\ seeks' = seeks \o <<8, Len(file) - 32>>
                   /\ pc' = "trailer"
                   /\ UNCHANGED result
    /\ UNCHANGED <<file, trailer, reftable, stack, ret, items, returned, out, got>>

\* mod.rs 117-119: Trailer::load, then seek to the offset table
LoadTrailer ==
    /\ pc = "trailer"
    /\ LET t == Trailer_load(pos)
       IN  /\ maxRead' = ReadEnd(pos, 32)
           /\ IF t.k # "Ok"
              THEN Stop(t) /\ UNCHANGED <<trailer, pos, seeks>>
              ELSE IF t.v.offset_table_start >= TooBig
              THEN /\ Stop(IOErr("InvalidInput"))
                   /\ trailer' = t.v /\ pos' = pos + 32 /\ UNCHANGED seeks
              ELSE /\ trailer' = t.v
                   /\ pos' = t.v.offset_table_start
                   /\ seeks' = Append(seeks, t.v.offset_table_start)
                   /\ pc' = "reftable"
                   /\ UNCHANGED result
    /\ UNCHANGED <<file, reftable, stack, ret, items, returned, out, got>>

\* mod.rs 120-124: ReferenceTable::load, seek back behind the magic and call
\* load_item there
LoadReferenceTable ==
    /\ pc = "reftable"
    /\ LET t == ReferenceTable_load(pos, trailer)
           n == trailer.num_objects
           w == trailer.offset_table_offset_size
       IN  /\ maxRead' = IF n = 0 THEN maxRead
                         ELSE IF w > 8 THEN ReadEnd(pos, w)
                         ELSE IF n >= Huge THEN ReadEnd(pos, w * Len(file))
                         ELSE ReadEnd(pos, n * w)
           /\ IF t.k # "Ok"
              THEN Stop(t) /\ UNCHANGED <<reftable, pos, seeks, stack>>
              ELSE /\ reftable' = t.v
                   /\ pos' = object_table_pos
                   /\ seeks' = Append(seeks, object_table_pos)
                   /\ stack' = <<Frame("item", "start", object_table_pos)>>
                   /\ pc' = "decode"
                   /\ UNCHANGED result
    /\ UNCHANGED <<file, trailer, ret, items, returned, out, got>>

----------------------------------------------------------------------------
(* The object decoder *)

Top == stack[Len(stack)]
Pop(st) == SubSeq(st, 1, Len(st) - 1)
SetTop(f) == [stack EXCEPT ![Len(stack)] = f]

Decoding == pc = "decode" /\ stack # <<>> /\ Len(stack) <= MaxDepth

\* the innermost call returns r to its caller
Return(r) ==
    /\ ret' = r
    /\ stack' = Pop(stack)
    /\ returned' = IF r.k = "Ok" THEN Append(returned, [at |-> Top.at, v |-> r.v])
                   ELSE returned

\* the loader a marker tag with a length dispatches to
LengthLoader(marker_high) ==
    IF marker_high = marker_DATA THEN "data"
    ELSE IF marker_high = marker_ASCII_STR THEN "ascii"
    ELSE IF marker_high = marker_UTF16_STR THEN "utf16"
    ELSE IF marker_high = marker_ARRAY THEN "array"
    ELSE IF marker_high = marker_DICT THEN "dict"
    ELSE "none"

\* the Result and the bytes consumed of a marker that needs no further call
LeafLoad(p, marker_high, marker_low) ==
    IF marker_high = marker_SINGLE THEN [r |-> load_single(marker_low), n |-> 0]
    ELSE IF marker_high = marker_INT
         THEN [r |-> load_int(p, marker_low), n |-> Pow2(marker_low)]
    ELSE IF marker_high = marker_REAL
         THEN [r |-> load_real(p, marker_low), n |-> Pow2(marker_low)]
    ELSE IF marker_high = marker_UID
         THEN [r |-> load_uid(p, marker_low), n |-> marker_low + 1]
    ELSE IF marker_high = marker_DATE
         THEN [r |-> Panic("not yet implemented: date"), n |-> 0]
    ELSE IF marker_high = marker_SET
         THEN [r |-> Panic("not yet implemented: set"), n |-> 0]
    ELSE [r |-> Err("InvalidFormat", "unrecognized part"), n |-> 0]

IsLeafTag(marker_high) == LengthLoader(marker_high) = "none"

IsKnownTag(marker_high) ==
    marker_high \in {marker_SINGLE, marker_INT, marker_REAL, marker_DATE,
                     marker_DATA, marker_ASCII_STR, marker_UTF16_STR, marker_UID,
                     marker_ARRAY, marker_SET, marker_DICT}

\* BPList::load_item up to the call it dispatches to; the leaf loaders run
\* here, the loaders with a length continue in the frame (load_length first)
LoadItem ==
    /\ Decoding /\ ret = None
    /\ Top.fn = "item"
    /\ IF pos >= Len(file)
       THEN /\ Return(Err("EOF", ""))
            /\ UNCHANGED <<pos, maxRead, items, out, result, pc>>
       ELSE LET marker == file[pos + 1]
                marker_high == marker \div 16
                marker_low == marker % 16
                leaf == LeafLoad(pos + 1, marker_high, marker_low)
            IN  /\ items' = Append(items, pos)
                /\ out' = IF IsKnownTag(marker_high) THEN out
                          ELSE Append(out, marker_high)
                /\ IF IsLeafTag(marker_high)
                   THEN /\ maxRead' = ReadEnd(pos, 1 + leaf.n)
                        /\ pos' = Min(pos + 1 + leaf.n, Len(file))
                        /\ IF leaf.r.k = "Panic"
                           THEN Stop(leaf.r) /\ UNCHANGED <<stack, ret, returned>>
                           ELSE Return(leaf.r) /\ UNCHANGED <<result, pc>>
                   ELSE /\ maxRead' = ReadEnd(pos, 1)
                        /\ pos' = pos + 1
                        /\ stack' =
                             IF marker_low = 15
                             THEN Append(SetTop([Top EXCEPT
                                                   !.fn = LengthLoader(marker_high),
                                                   !.st = "len"]),
                                         Frame("item", "start", pos + 1))
                             ELSE SetTop([Top EXCEPT
                                            !.fn = LengthLoader(marker_high),
                                            !.st = "body",
                                            !.length = RegOf(marker_low)])
                        /\ UNCHANGED <<ret, returned, result, pc>>
    /\ UNCHANGED <<file, trailer, reftable, seeks, got>>

\* a load_length that takes every object for a count (0 for one that is no Int)
load_length_lenient(item) ==
    IF item.t = "Int" THEN Ok(item.v) ELSE Ok(Zeros(8))

\* load_length, the escape case: what it makes of the object load_item decoded
load_length(item) ==
    IF item.t = "Int" THEN Ok(item.v)
    ELSE Err("InvalidFormat", "invalid dict size")

\* load_length after its load_item returned: the count of an Int, else an error
LengthReturn ==
    /\ Decoding /\ ret # None
    /\ Top.st = "len"
    /\ IF ret.k # "Ok"
       THEN Return(ret)
       ELSE IF load_length(ret.v).k = "Ok"
       THEN /\ stack' = SetTop([Top EXCEPT !.st = "body",
                                           !.length = load_length(ret.v).v])
            /\ ret' = None
            /\ UNCHANGED returned
       ELSE Return(load_length(ret.v))
    /\ UNCHANGED <<file, pos, pc, trailer, reftable, result, maxRead, seeks,
                   items, out, got>>

\* the two builds of the crate: arithmetic overflow panics in a debug build
\* and wraps in a release build
Builds == {"debug", "release"}

\* the buffer size of load_data, load_ascii_str (`length as usize`) and of
\* load_utf16_str (`length as usize * 2`), and what vec![0; size] does with it
BufSize(fn, length, build) ==
    LET low63 == [length EXCEPT ![1] = length[1] % 128]
    IN  IF fn # "utf16"
        THEN IF IsNeg(length) THEN Panic("capacity overflow")
             ELSE IF AsCount(length) >= Huge THEN Abort("memory allocation failed")
             ELSE Ok(AsCount(length))
        ELSE IF IsNeg(length) /\ build = "debug"
             THEN Panic("attempt to multiply with overflow")
        ELSE IF low63[1] >= 64 THEN Panic("capacity overflow")
        ELSE IF 2 * AsCount(low63) >= Huge THEN Abort("memory allocation failed")
        ELSE Ok(2 * AsCount(low63))

\* the value load_data, load_ascii_str, load_utf16_str make of the bytes read
BytesValue(fn, buf) ==
    IF fn = "data" THEN Ok(Data(buf))
    ELSE IF fn = "ascii"
         THEN IF as_utf8(buf).k = "Ok" THEN Ok(Str(as_utf8(buf).v)) ELSE as_utf8(buf)
    ELSE IF as_utf16(buf).k = "Ok" THEN Ok(Str(as_utf16(buf).v)) ELSE as_utf16(buf)

\* load_data, load_ascii_str, load_utf16_str once the length is known
LoadBytes ==
    /\ Decoding /\ ret = None
    /\ Top.st = "body" /\ Top.fn \in {"data", "ascii", "utf16"}
    /\ \E build \in Builds :
         LET size == BufSize(Top.fn, Top.length, build)
             buf == read_exact(pos, size.v)
         IN  IF size.k # "Ok"
             THEN Stop(size) /\ UNCHANGED <<stack, ret, returned, pos, maxRead>>
             ELSE /\ maxRead' = ReadEnd(pos, size.v)
                  /\ pos' = Min(pos + size.v, Len(file))
                  /\ Return(IF buf.k # "Ok" THEN buf ELSE BytesValue(Top.fn, buf.v))
                  /\ UNCHANGED <<result, pc>>
    /\ UNCHANGED <<file, trailer, reftable, seeks, items, out, got>>

\* the references at p: count big-endian numbers of width bytes each
RefsAt(p, count, width) ==
    [j \in 1..count |->
        from_be_bytes(SubSeq(file, p + (j - 1) * width + 1, p + j * width)).v]

\* reference loops that take the count for an unsigned number
ReadRefRuns_unsigned(p, length, width, runs) ==
    LET count == AsCount(length)
    IN  IF count = 0 THEN Ok(<<>>)
        ELSE IF read_exact(p, width).k # "Ok" THEN IOErr("UnexpectedEof")
        ELSE IF width > 8 THEN from_be_bytes(read_exact(p, width).v)
        ELSE IF width = 0
             THEN IF count >= Huge THEN Abort("memory exhausted")
                  ELSE Ok([j \in 1..(runs * count) |-> 0])
        ELSE IF count >= Huge \/ p + runs * count * width > Len(file)
             THEN IOErr("UnexpectedEof")
        ELSE Ok(RefsAt(p, runs * count, width))

\* the reference loops of load_array (one run) and load_dict (runs = 2: the
\* key references, then the value references), with the cursor at p
ReadRefRuns(p, length, width, runs) ==
    LET count == IF IsNeg(length) THEN 0 ELSE AsCount(length)
    IN  IF count = 0 THEN Ok(<<>>)
        ELSE IF read_exact(p, width).k # "Ok" THEN IOErr("UnexpectedEof")
        ELSE IF width > 8 THEN from_be_bytes(read_exact(p, width).v)
        ELSE IF width = 0
             THEN IF count >= Huge THEN Abort("memory exhausted")
                  ELSE Ok([j \in 1..(runs * count) |-> 0])
        ELSE IF count >= Huge \/ p + runs * count * width > Len(file)
             THEN IOErr("UnexpectedEof")
        ELSE Ok(RefsAt(p, runs * count, width))

\* load_array, load_dict once the length is known: read all the references
ReadRefs ==
    /\ Decoding /\ ret = None
    /\ Top.st = "body" /\ Top.fn \in {"array", "dict"}
    /\ LET runs == IF Top.fn = "dict" THEN 2 ELSE 1
           width == trailer.object_ref_size
           refs == ReadRefRuns(pos, Top.length, width, runs)
           count == Len(refs.v) \div runs
       IN  IF refs.k \in {"Panic", "Abort"}
           THEN /\ Stop(refs)
                /\ maxRead' = ReadEnd(pos, width)
                /\ UNCHANGED <<stack, ret, returned, pos>>
           ELSE IF refs.k # "Ok"
           THEN /\ Return(refs)
                /\ maxRead' = ReadEnd(pos, Len(file))
                /\ pos' = Max(pos, Len(file))
                /\ UNCHANGED <<result, pc>>
           ELSE /\ stack' = SetTop([Top EXCEPT
                                      !.st = "kids",
                                      !.refs = SubSeq(refs.v, 1, count),
                                      !.refs2 = SubSeq(refs.v, count + 1,
                                                       Len(refs.v))])
                /\ maxRead' = ReadEnd(pos, Len(refs.v) * width)
                /\ pos' = pos + Len(refs.v) * width
                /\ UNCHANGED <<ret, returned, result, pc>>
    /\ UNCHANGED <<file, trailer, reftable, seeks, items, out, got>>

\* a seek_ref that resolves the reference and leaves the cursor where it is:
\* the child is decoded from the bytes that follow what was read last
seek_ref_stay(table, objref) ==
    IF objref \in DOMAIN table THEN Ok(pos) ELSE Err("NotFound", "")

\* a seek_ref that falls back to the first object for a missing reference
seek_ref_or_first(table, objref) ==
    LET offset == IF objref \in DOMAIN table THEN Ok(table[objref])
                  ELSE ReferenceTable_get(table, 0)
    IN  IF offset = None THEN Err("NotFound", "")
        ELSE IF offset.v >= TooBig THEN IOErr("InvalidInput")
        ELSE offset

\* seek_ref: the offset the cursor is set to, NotFound for a reference the
\* table does not hold, an I/O error for an offset no seek accepts
seek_ref(table, objref) ==
    LET offset == ReferenceTable_get(table, objref)
    IN  IF offset = None THEN Err("NotFound", "")
        ELSE IF offset.v >= TooBig THEN IOErr("InvalidInput")
        ELSE offset

\* a dict read as interleaved key, value, key, value references
CurrentRef_interleaved(f) ==
    IF f.fn = "array" THEN f.refs[f.i]
    ELSE IF f.half = "key" THEN (f.refs \o f.refs2)[2 * f.i - 1]
    ELSE (f.refs \o f.refs2)[2 * f.i]

\* the reference the loop of load_array / load_dict is at
CurrentRef(f) == IF f.half = "key" THEN f.refs[f.i] ELSE f.refs2[f.i]

\* the values the calls that read their marker at offset off have returned
CachedAt(off) == SelectSeq(returned, LAMBDA e : e.at = off)

\* a child loop that refuses a reference to the offset of a container it is
\* inside of
SeekChild_guarded ==
    /\ Decoding /\ ret = None
    /\ Top.st = "kids"
    /\ IF Top.i > Len(Top.refs)
       THEN /\ Return(Ok(IF Top.fn = "array" THEN Array(Top.objs) ELSE Dict(Top.objs)))
            /\ UNCHANGED <<pos, seeks>>
       ELSE LET target == seek_ref(reftable, CurrentRef(Top))
            IN  IF target.k # "Ok"
                THEN Return(target) /\ UNCHANGED <<pos, seeks>>
                ELSE IF \E d \in 1..Len(stack) : stack[d].at = target.v
                THEN /\ Return(Err("InvalidFormat", "reference cycle"))
                     /\ UNCHANGED <<pos, seeks>>
                ELSE /\ pos' = target.v
                     /\ seeks' = Append(seeks, target.v)
                     /\ stack' = Append(stack, Frame("item", "start", target.v))
                     /\ UNCHANGED <<ret, returned>>
    /\ UNCHANGED <<file, pc, trailer, reftable, result, maxRead, items, out, got>>

\* a child loop that keeps the decoded objects: a child whose offset was
\* decoded before is taken from the cache
SeekChild_cached ==
    /\ Decoding /\ ret = None
    /\ Top.st = "kids"
    /\ IF Top.i > Len(Top.refs)
       THEN /\ Return(Ok(IF Top.fn = "array" THEN Array(Top.objs) ELSE Dict(Top.objs)))
            /\ UNCHANGED <<pos, seeks>>
       ELSE LET target == seek_ref(reftable, CurrentRef(Top))
            IN  IF target.k # "Ok"
                THEN Return(target) /\ UNCHANGED <<pos, seeks>>
                ELSE /\ pos' = target.v
                     /\ seeks' = Append(seeks, target.v)
                     /\ IF CachedAt(target.v) # <<>>
                        THEN /\ ret' = Ok(CachedAt(target.v)[1].v)
                             /\ UNCHANGED <<stack, returned>>
                        ELSE /\ stack' = Append(stack,
                                                Frame("item", "start", target.v))
                             /\ UNCHANGED <<ret, returned>>
    /\ UNCHANGED <<file, pc, trailer, reftable, result, maxRead, items, out, got>>

\* the head of the child loop of load_array / load_dict: return the finished
\* container, or seek_ref to the next child and call load_item
SeekChild ==
    /\ Decoding /\ ret = None
    /\ Top.st = "kids"
    /\ IF Top.i > Len(Top.refs)
       THEN /\ Return(Ok(IF Top.fn = "array" THEN Array(Top.objs) ELSE Dict(Top.objs)))
            /\ UNCHANGED <<pos, seeks>>
       ELSE LET target == seek_ref(reftable, CurrentRef(Top))
            IN  IF target.k # "Ok"
                THEN Return(target) /\ UNCHANGED <<pos, seeks>>
                ELSE /\ pos' = target.v
                     /\ seeks' = Append(seeks, target.v)
                     /\ stack' = Append(stack, Frame("item", "start", target.v))
                     /\ UNCHANGED <<ret, returned>>
    /\ UNCHANGED <<file, pc, trailer, reftable, result, maxRead, items, out, got>>

\* the frame of load_array / load_dict after its child returned Ok(v)
PushChild(f, v) ==
    IF f.fn = "array" THEN [f EXCEPT !.objs = Append(f.objs, v), !.i = f.i + 1]
    ELSE IF f.half = "key" THEN [f EXCEPT !.key = v, !.half = "obj"]
    ELSE [f EXCEPT !.objs = Append(f.objs, <<f.key, v>>), !.i = f.i + 1,
                   !.half = "key"]

\* a child loop that puts Null in the place of a child that failed and goes
\* on with the next sibling
ChildReturn_skip_failed ==
    /\ Decoding /\ ret # None
    /\ Top.st = "kids"
    /\ stack' = SetTop(PushChild(Top, IF ret.k = "Ok" THEN ret.v ELSE Null))
    /\ ret' = None
    /\ UNCHANGED returned
    /\ UNCHANGED <<file, pos, pc, trailer, reftable, result, maxRead, seeks,
                   items, out, got>>

\* `BPList::load_item(..)?` in the child loops: an error is returned at once,
\* a value is pushed
ChildReturn ==
    /\ Decoding /\ ret # None
    /\ Top.st = "kids"
    /\ IF ret.k # "Ok"
       THEN Return(ret)
       ELSE /\ stack' = SetTop(PushChild(Top, ret.v))
            /\ ret' = None
            /\ UNCHANGED returned
    /\ UNCHANGED <<file, pos, pc, trailer, reftable, result, maxRead, seeks,
                   items, out, got>>

\* load returns what the outermost load_item returned
Finish ==
    /\ pc = "decode" /\ stack = <<>> /\ ret # None
    /\ result' = ret
    /\ pc' = "done"
    /\ UNCHANGED <<file, pos, trailer, reftable, stack, ret, maxRead, seeks,
                   items, returned, out, got>>

\* recursion deeper than the model follows: the thread's stack is exhausted
\* and the runtime aborts the process
StackOverflow ==
    /\ pc = "decode" /\ Len(stack) > MaxDepth
    /\ Stop(Abort("stack overflow"))
    /\ UNCHANGED <<file, pos, trailer, reftable, stack, ret, maxRead, seeks,
                   items, returned, out, got>>

----------------------------------------------------------------------------
(* The input files of the model *)

RECURSIVE Concat(_)
Concat(ss) == IF ss = <<>> THEN <<>> ELSE Head(ss) \o Concat(Tail(ss))

\* n < 65536 as w big-endian bytes (w = 0: none; w = 1: the low byte)
BE(n, w) ==
    IF w = 0 THEN <<>>
    ELSE IF w = 1 THEN <<n % 256>>
    ELSE Zeros(w - 2) \o <<n \div 256, n % 256>>

\* an object of a generated file: its leading bytes and its child references
Obj(b, r) == [b |-> b, r |-> r]
Enc(o, rsz) == o.b \o Concat([j \in 1..Len(o.r) |-> BE(o.r[j], rsz)])

TrailerBytes(osz, rsz, n, top, start) ==
    Zeros(6) \o <<osz, rsz>> \o BE(n, 8) \o BE(top, 8) \o BE(start, 8)

\* A file: magic, the objects in order, pad unused bytes, the offset table,
\* the trailer.  tab[j] > 0 names the object whose offset entry j holds;
\* tab[j] <= 0 is an offset counted from the end of the file
Build(magic, objs, pad, tab, osz, rsz, n, top) ==
    LET encs == [j \in 1..Len(objs) |-> Enc(objs[j], rsz)]
        body == Concat(encs)
        start == 8 + Len(body) + pad
        len == start + Len(tab) * osz + 32
        Off(j) == 8 + Len(Concat(SubSeq(encs, 1, j - 1)))
        entry(j) == IF tab[j] > 0 THEN Off(tab[j]) ELSE len + tab[j]
    IN  magic \o body \o [j \in 1..pad |-> 15]
        \o Concat([j \in 1..Len(tab) |-> BE(entry(j), osz)])
        \o TrailerBytes(osz, rsz, n, top, start)

\* a well-laid-out file of the objects objs, object j - 1 at table index j - 1
Plain(objs) ==
    Build(Magic, objs, 0, [j \in 1..Len(objs) |-> j], 1, 1, Len(objs), 0)

Refs == 0..MaxRef

StrA == Obj(<<81, 97>>, <<>>)
StrB == Obj(<<81, 98>>, <<>>)
Int7 == Obj(<<16, 7>>, <<>>)
Int258 == Obj(<<17, 1, 2>>, <<>>)
RealOne == Obj(<<35, 63, 240, 0, 0, 0, 0, 0, 0>>, <<>>)
NullObj == Obj(<<0>>, <<>>)
TrueObj == Obj(<<9>>, <<>>)
FillerObj == Obj(<<15>>, <<>>)
BadSingle == Obj(<<5>>, <<>>)
DateObj == Obj(<<51, 0, 0, 0, 0, 0, 0, 0, 0>>, <<>>)
SetObj == Obj(<<192>>, <<>>)
UnusedTag == Obj(<<112>>, <<>>)
DataObj == Obj(<<66, 1, 2>>, <<>>)
UidObj == Obj(<<128, 18>>, <<>>)
BadUtf8 == Obj(<<81, 255>>, <<>>)
Utf16E == Obj(<<97, 0, 233>>, <<>>)
Utf16Lone == Obj(<<97, 216, 0>>, <<>>)
Int4Hi == Obj(<<18, 255, 255, 255, 254>>, <<>>)
Int1Hi == Obj(<<16, 255>>, <<>>)
Int8Neg == Obj(<<19, 128, 0, 0, 0, 0, 0, 0, 1>>, <<>>)
Int2Hi == Obj(<<17, 255, 0>>, <<>>)
MinusOne == <<19, 255, 255, 255, 255, 255, 255, 255, 255>>
MinInt1 == <<19, 128, 0, 0, 0, 0, 0, 0, 1>>
Pow56 == <<19, 1, 0, 0, 0, 0, 0, 0, 0>>
Arr(r) == Obj(<<160 + Len(r)>>, r)
Dic(k, v) == Obj(<<208 + Len(k)>>, k \o v)
\* a container whose count is the object with the bytes lenobj (escape length)
ArrEsc(lenobj, r) == Obj(<<175>> \o lenobj, r)
DicEsc(lenobj, k, v) == Obj(<<223>> \o lenobj, k \o v)

\* the containers at the root: their references range over Refs
Roots ==
    {Arr(<<a>>) : a \in Refs}
    \cup {Arr(<<a, b>>) : a, b \in Refs}
    \cup {ArrEsc(<<16, 2>>, <<a, b>>) : a, b \in Refs}
    \cup {Dic(<<a>>, <<b>>) : a, b \in Refs}
    \cup {Dic(<<a, b>>, <<c, d>>) : a, b \in {1, 2}, c, d \in Refs}

\* the two objects behind the root (table indices 1 and 2)
Pairs ==
    {<<StrA, StrB>>, <<StrA, StrA>>, <<StrA, Int7>>, <<Int7, NullObj>>,
     <<RealOne, StrA>>, <<Arr(<<2>>), StrA>>, <<Arr(<<1>>), StrA>>,
     <<Arr(<<0>>), StrB>>, <<Dic(<<2>>, <<2>>), Int258>>, <<StrA, Arr(<<>>)>>,
     <<DateObj, StrA>>, <<StrA, SetObj>>, <<UnusedTag, StrA>>,
     <<Int7, BadSingle>>, <<Utf16E, DataObj>>, <<UidObj, TrueObj>>,
     <<BadUtf8, FillerObj>>, <<Dic(<<>>, <<>>), Utf16Lone>>,
     <<Int4Hi, Int1Hi>>, <<Int8Neg, Int2Hi>>}

MainPairs ==
    {<<StrA, StrB>>, <<StrA, StrA>>, <<RealOne, StrA>>, <<Arr(<<2>>), StrA>>,
     <<Int7, NullObj>>, <<Arr(<<0>>), StrB>>}

MainRoots ==
    {Arr(<<1, 2>>), Arr(<<2, 1>>), Arr(<<3>>), ArrEsc(<<16, 2>>, <<1, 2>>),
     Dic(<<1>>, <<2>>), Dic(<<1, 2>>, <<2, 1>>)}

\* family 1: a container at the root over two more objects; a reference of
\* 3 and more is not in the table
TreeFiles ==
    {Plain(<<r, p[1], p[2]>>) : r \in Roots, p \in MainPairs}
    \cup {Plain(<<r, p[1], p[2]>>) : r \in MainRoots, p \in Pairs}

\* the byte k places before the end of f replaced by b
PatchEnd(f, k, b) == [f EXCEPT ![Len(f) - k + 1] = b]

BadMagics ==
    {<<98, 112, 108, 105, 115, 116, 48, 49>>,
     <<66, 80, 76, 73, 83, 84, 48, 48>>,
     <<98, 112, 108, 105, 115, 116, 48, 255>>,
     <<195, 40, 108, 105, 115, 116, 48, 48>>,
     <<0, 0, 0, 0, 0, 0, 0, 0>>}

SomeObjs ==
    {<<Arr(<<1, 2>>), StrA, Int7>>, <<StrA, Arr(<<0, 2>>), Dic(<<0>>, <<1>>)>>,
     <<Int7, StrB, Arr(<<0>>)>>}

\* family 2: files that do not start with the magic, and files too short
\* to hold a magic or a trailer
MagicFiles ==
    {Build(m, objs, 0, <<1, 2, 3>>, 1, 1, 3, 0) : m \in BadMagics, objs \in SomeObjs}
    \cup {SubSeq(Magic, 1, n) : n \in 0..8}
    \cup {m \o Zeros(n) : m \in BadMagics, n \in {0, 24}}
    \cup {Magic \o <<16, 7>> \o Zeros(n) : n \in {0, 5, 21, 22}}

Tabs == {<<1, 2, 3>>, <<2, 1, 3>>, <<3, 1, 2>>, <<1, 1, 1>>, <<1, 2>>, <<0, -1, 2>>}

\* family 3: trailers: table entry and reference widths, object counts, root
\* indices and offset tables of every kind
TrailerFiles ==
    {Build(Magic, objs, 0, <<1, 2, 3>>, osz, rsz, n, 0) :
        objs \in SomeObjs, osz \in {0, 1, 2, 8, 9}, rsz \in {0, 1, 2, 8, 9},
        n \in {0, 1, 3, 4}}
    \cup {Build(Magic, objs, pad, tab, 1, 1, Len(tab), top) :
            objs \in SomeObjs, tab \in Tabs, top \in 0..2, pad \in {0, 2}}
    \cup {PatchEnd(Build(Magic, objs, 0, <<1, 2, 3>>, osz, 1, 3, 0), k, b) :
            objs \in SomeObjs, osz \in {0, 1}, k \in {8, 24}, b \in {1, 128}}

\* markers of objects whose body does not fit into 8 bytes, and of some that do
EndMarkers == {19, 20, 35, 36, 74, 79, 90, 101, 136, 169, 213, 175, 0, 112}

\* family 4: files that end inside or right behind an object: the only child
\* of the root is at the end of the file (tab entry 0), is its last byte (-1:
\* the low byte of the table's offset, 16 + pad) or is the low byte of the
\* trailer's root index with 8 more bytes behind it (-9)
EndFiles ==
    {Build(Magic, <<root, StrA>>, 0, <<1, -9>>, 1, 1, 2, top) :
        root \in {Arr(<<1>>), Dic(<<1>>, <<1>>), ArrEsc(<<16, 1>>, <<1>>)},
        top \in EndMarkers}
    \cup {Build(Magic, <<Arr(<<1>>), StrA, Int258>>, pad, <<1, e>>, 1, 1, 2, 0) :
            pad \in {0, 1, 2, 3, 19, 20, 50, 65}, e \in {0, -1}}

\* the objects with an escape length: the count is the object that follows
EscObjs ==
    {ArrEsc(<<16, 1>>, <<1>>), DicEsc(<<16, 1>>, <<1>>, <<2>>),
     DicEsc(<<17, 0, 2>>, <<1, 2>>, <<2, 1>>),
     ArrEsc(<<0>>, <<1>>), ArrEsc(<<81, 97>>, <<1>>), DicEsc(<<9>>, <<1>>, <<2>>),
     ArrEsc(RealOne.b, <<1>>), ArrEsc(<<161, 1>>, <<1, 2>>), ArrEsc(<<112>>, <<1>>),
     ArrEsc(<<192>>, <<1>>), ArrEsc(<<21>>, <<1>>),
     ArrEsc(MinusOne, <<1, 2>>), DicEsc(MinusOne, <<1>>, <<2>>),
     ArrEsc(Pow56, <<1>>), DicEsc(Pow56, <<1>>, <<2>>),
     Obj(<<79, 16, 2, 9, 9>>, <<>>), Obj(<<79, 16, 2, 9>>, <<>>),
     Obj(<<79>> \o MinusOne, <<>>), Obj(<<79>> \o Pow56, <<>>),
     Obj(<<79, 79, 16, 1, 9>>, <<>>), Obj(<<79, 0>>, <<>>),
     Obj(<<95, 16, 1, 97>>, <<>>), Obj(<<95>> \o MinusOne, <<>>),
     Obj(<<111, 16, 1, 0, 233>>, <<>>), Obj(<<111>> \o MinInt1 \o <<0, 97>>, <<>>),
     Obj(<<111>> \o MinusOne, <<>>), Obj(<<111>> \o Pow56, <<>>),
     Obj(<<111, 19, 64, 0, 0, 0, 0, 0, 0, 0>>, <<>>)}

\* family 5: escape lengths, at the root and below it
EscFiles ==
    {Build(Magic, <<e, StrA, Int7>>, 0, <<1, 2, 3>>, 1, rsz, 3, 0) :
        e \in EscObjs, rsz \in {0, 1, 2, 9}}
    \cup {Plain(<<root, e, StrB>>) :
            e \in EscObjs, root \in {Arr(<<2, 1, 2>>), Dic(<<2, 1>>, <<1, 2>>)}}

\* family 6: every marker of tag 0, at the root and as an array element
SingleFiles ==
    {Plain(<<Obj(<<n>>, <<>>)>>) : n \in 0..15}
    \cup {Plain(<<Arr(<<1, 2>>), Obj(<<n>>, <<>>), StrA>>) : n \in 0..15}

Files ==
    TreeFiles \cup MagicFiles \cup TrailerFiles \cup EndFiles \cup EscFiles
    \cup SingleFiles

----------------------------------------------------------------------------
(* Lookup on the loaded value *)

\* the lookup keys tried on a loaded value d: fixed ones, and d's own keys
LookupKeys(d) ==
    <<Str(<<97>>), Str(<<98>>), Str(<<122>>), IntV(RegOf(7)), Null,
      Real(<<63, 240, 0, 0, 0, 0, 0, 0>>), Array(<<>>), Dict(<<>>)>>
    \o (IF d.t = "Dict" THEN [j \in 1..Len(d.v) |-> d.v[j][1]] ELSE <<>>)

NoLookup == [key |-> Null, res |-> None]

\* a caller looks a key up in the value load returned
Get ==
    /\ pc = "done" /\ result.k = "Ok"
    /\ \E j \in 1..Len(LookupKeys(result.v)) :
         LET lookup_key == LookupKeys(result.v)[j]
         IN  got' = [key |-> lookup_key, res |-> get(result.v, lookup_key)]
    /\ UNCHANGED <<file, pos, pc, trailer, reftable, stack, ret, result,
                   maxRead, seeks, items, returned, out>>

----------------------------------------------------------------------------
(* The specification *)

Init ==
    /\ file \in Files
    /\ pos = 0
    /\ pc = "magic"
    /\ trailer = NoTrailer
    /\ reftable = <<>>
    /\ stack = <<>>
    /\ ret = None
    /\ result = None
    /\ maxRead = 0
    /\ seeks = <<>>
    /\ items = <<>>
    /\ returned = <<>>
    /\ out = <<>>
    /\ got = NoLookup

Next ==
    \/ CheckMagic
    \/ LoadTrailer
    \/ LoadReferenceTable
    \/ LoadItem
    \/ LengthReturn
    \/ LoadBytes
    \/ ReadRefs
    \/ SeekChild
    \/ ChildReturn
    \/ Finish
    \/ StackOverflow
    \/ Get

Spec == Init /\ [][Next]_vars

\* the steps of load itself: one thread runs them one after the other until
\* load returns or the process ends
LoadStep ==
    \/ CheckMagic
    \/ LoadTrailer
    \/ LoadReferenceTable
    \/ LoadItem
    \/ LengthReturn
    \/ LoadBytes
    \/ ReadRefs
    \/ SeekChild
    \/ ChildReturn
    \/ Finish
    \/ StackOverflow

\* where the thread is: the part of the state that every step of load
\* changes (the decoded values are left out)
ctl ==
    <<pc, pos, ret.k, Len(items), Len(returned),
      [d \in 1..Len(stack) |->
          <<stack[d].fn, stack[d].st, stack[d].i, stack[d].half>>]>>

\* one call of load, from its entry to its end: the thread that called it
\* keeps running, so that a step of load that can be taken is taken
FairSpec == Init /\ [][LoadStep]_vars /\ WF_ctl(LoadStep)

----------------------------------------------------------------------------
(* util::as_utf16 on its own: a call with any byte span, not only the
   even-length buffers load_utf16_str hands to it *)

MaxSpan == 4

\* a zero byte, 'a', the first byte of a high and of a low surrogate
SpanBytes == {0, 97, 216, 220}

RECURSIVE SpansOf(_)
SpansOf(n) ==
    IF n = 0 THEN {<<>>}
    ELSE LET shorter == SpansOf(n - 1)
         IN  shorter \cup {Append(b, x) : b \in {c \in shorter : Len(c) = n - 1},
                                          x \in SpanBytes}

\* the span is held in `file`, the outcome of the call in `result`
InitUtf16 ==
    /\ file \in SpansOf(MaxSpan)
    /\ pos = 0
    /\ pc = "as_utf16"
    /\ trailer = NoTrailer
    /\ reftable = <<>>
    /\ stack = <<>>
    /\ ret = None
    /\ result = None
    /\ maxRead = 0
    /\ seeks = <<>>
    /\ items = <<>>
    /\ returned = <<>>
    /\ out = <<>>
    /\ got = NoLookup

AsUtf16 ==
    /\ pc = "as_utf16"
    /\ result' = as_utf16(file)
    /\ pc' = "done"
    /\ UNCHANGED <<file, pos, trailer, reftable, stack, ret, maxRead, seeks,
                   items, returned, out, got>>

NextUtf16 == AsUtf16

SpecUtf16 == InitUtf16 /\ [][NextUtf16]_vars

----------------------------------------------------------------------------
(* Helpers of the properties *)

RECURSIVE Same(_, _)
\* a and b are the same value (variant by variant)
Same(a, b) ==
    /\ a.t = b.t
    /\ IF a.t \in {"Null", "Filler"} THEN TRUE
       ELSE IF a.t = "Array"
            THEN /\ Len(a.v) = Len(b.v)
                 /\ \A j \in 1..Len(a.v) : Same(a.v[j], b.v[j])
       ELSE IF a.t = "Dict"
            THEN /\ Len(a.v) = Len(b.v)
                 /\ \A j \in 1..Len(a.v) : /\ Same(a.v[j][1], b.v[j][1])
                                           /\ Same(a.v[j][2], b.v[j][2])
       ELSE a.v = b.v

IsErr(r, e) == r.k = "Err" /\ r.e = e

Last(s) == s[Len(s)]

\* the file holds 8 bytes and they are not the bytes of "bplist00"
MagicMismatch ==
    /\ Len(file) >= 8
    /\ SubSeq(file, 1, 8) # <<98, 112, 108, 105, 115, 116, 48, 48>>

\* load has touched nothing behind the first 8 bytes
OnlyMagicTouched ==
    maxRead <= 8 /\ pos <= 8 /\ seeks = <<>> /\ items = <<>> /\ reftable = <<>>
    /\ trailer = NoTrailer

\* the container with its marker at offset `at`, read from the bytes of the
\* file: its declared count (-1 for a negative one) and where its references
\* start.  With an escape length the count is the Int object behind the marker
Declared(at) ==
    LET low == file[at + 1] % 16
        w == Pow2(file[at + 2] % 16)
        reg == Shift64(SubSeq(file, at + 3, at + 2 + w))
    IN  IF low < 15 THEN [n |-> low, refs |-> at + 1]
        ELSE [n |-> IF reg[1] >= 128 THEN -1 ELSE BeSat(reg), refs |-> at + 2 + w]

\* the j-th reference of the run of references that starts at offset p
FileRef(p, j) ==
    BeSat(SubSeq(file, p + (j - 1) * trailer.object_ref_size + 1,
                 p + j * trailer.object_ref_size))

\* entry idx of the offset table, read from the bytes of the file
TableOffset(idx) ==
    BeSat(SubSeq(file,
                 trailer.offset_table_start
                   + idx * trailer.offset_table_offset_size + 1,
                 trailer.offset_table_start
                   + (idx + 1) * trailer.offset_table_offset_size))

\* a load_item that read its marker at offset off returned the value v
DecodedAt(off, v) ==
    \E j \in 1..Len(returned) : returned[j].at = off /\ Same(returned[j].v, v)

----------------------------------------------------------------------------
(* C1 *)

----------------------------------------------------------------------------
(* C2 *)

\* the file is laid out as the format asks: widths of 1..8 bytes, the offset
\* table right before the trailer, every offset inside the object table, the
\* root index in the table
WellFormedLayout ==
    /\ pc \in {"decode", "done"} /\ items # <<>>
    /\ trailer.offset_table_offset_size \in 1..8
    /\ trailer.object_ref_size \in 1..8
    /\ trailer.top_object_offset \in DOMAIN reftable
    /\ trailer.offset_table_start
         + trailer.num_objects * trailer.offset_table_offset_size
       = Len(file) - 32
    /\ \A j \in DOMAIN reftable :
         reftable[j] >= 8 /\ reftable[j] < trailer.offset_table_start

\* C2 as stated: for every well-formed file the Value load returns is the
\* object decoded at reference_table[trailer.top_object_offset]
C2_Original ==
    (pc = "done" /\ result.k = "Ok" /\ WellFormedLayout) =>
        /\ items[1] = reftable[trailer.top_object_offset]
        /\ \E j \in 1..Len(returned) :
             /\ returned[j].at = reftable[trailer.top_object_offset]
             /\ Same(returned[j].v, result.v)

----------------------------------------------------------------------------
(* C3 *)

\* C3: a Dict decoded from a declared count N >= 0 has exactly N entries, and
\* entry i is (the decode of the object named by the i-th reference of the
\* first run of N references, the decode of the object named by the i-th
\* reference of the second run of N references)
C3_DictPairs ==
    \A j \in 1..Len(returned) :
        LET d == returned[j].v
            h == Declared(returned[j].at)
        IN  (d.t = "Dict" /\ h.n >= 0) =>
                /\ Len(d.v) = h.n
                /\ \A i \in 1..h.n :
                     /\ DecodedAt(TableOffset(FileRef(h.refs, i)), d.v[i][1])
                     /\ DecodedAt(TableOffset(FileRef(h.refs, h.n + i)), d.v[i][2])

\* a Dict of two entries with two different keys and two different values,
\* the first value different from the second key, was decoded
C3_Witness ==
    \E j \in 1..Len(returned) :
        LET d == returned[j].v
        IN  /\ d.t = "Dict" /\ Len(d.v) = 2
            /\ ~Same(d.v[1][1], d.v[2][1])
            /\ ~Same(d.v[1][2], d.v[2][2])
            /\ ~Same(d.v[1][2], d.v[2][1])

----------------------------------------------------------------------------
(* C4 *)

\* the marker byte m opens a data, string, array or dict object
HasLength(m) == (m \div 16) \in {4, 5, 6, 10, 13}

\* load_item is about to read the marker of an object with a length
AtLengthMarker ==
    /\ pc = "decode" /\ stack # <<>> /\ Len(stack) <= MaxDepth /\ ret = None
    /\ Top.fn = "item" /\ pos < Len(file) /\ HasLength(file[pos + 1])

\* the object load_length asked for has been decoded
LengthDecoded ==
    /\ pc = "decode" /\ stack # <<>> /\ Len(stack) <= MaxDepth
    /\ ret.k = "Ok" /\ Top.st = "len"

\* one step of the decoder treats the length as C4 says
C4_Step ==
    /\ AtLengthMarker =>
         IF file[pos + 1] % 16 = 15
         THEN /\ Len(stack') = Len(stack) + 1
              /\ stack'[Len(stack)].st = "len"
              /\ stack'[Len(stack')].fn = "item"
              /\ stack'[Len(stack')].at = pos + 1
              /\ pos' = pos + 1
         ELSE /\ Len(stack') = Len(stack)
              /\ stack'[Len(stack)].st = "body"
              /\ stack'[Len(stack)].length = Zeros(7) \o <<file[pos + 1] % 16>>
              /\ items' = Append(items, pos)
    /\ LengthDecoded =>
         IF ret.v.t = "Int"
         THEN /\ Len(stack') = Len(stack)
              /\ stack'[Len(stack)].st = "body"
              /\ stack'[Len(stack)].length = ret.v.v
              /\ ret' = None
         ELSE /\ IsErr(ret', "InvalidFormat")
              /\ stack' = SubSeq(stack, 1, Len(stack) - 1)
              /\ items' = items /\ pos' = pos

\* the object at offset 8 has an escape length and a singleton follows it:
\* load fails with InvalidFormat
C4_RootLengthNotInt ==
    (/\ pc = "done" /\ items # <<>>
     /\ HasLength(file[9]) /\ file[9] % 16 = 15
     /\ file[10] \in {0, 8, 9, 15})
        => IsErr(result, "InvalidFormat")

\* C4: with a low nibble of 0xF load_length decodes the object that follows the
\* marker and takes an Int as the count, any other value makes the decode
\* fail with InvalidFormat; with a low nibble of 0..14 the count is the nibble
\* and no further object is decoded
C4_EscapeLength == [][C4_Step]_vars /\ []C4_RootLengthNotInt

\* load failed with InvalidFormat because the escape length of some object
\* below the root decoded to a value that is no Int
C4_Witness ==
    /\ pc = "done" /\ IsErr(result, "InvalidFormat")
    /\ result.m = "invalid dict size"
    /\ Len(items) >= 3
    /\ \E j \in 1..Len(returned) : returned[j].v.t # "Int"

----------------------------------------------------------------------------
(* C5 *)

\* a and b are of one of the variants compared by value, and are equal
EqualByValue(a, b) ==
    /\ a.t = b.t
    /\ a.t \in {"Null", "Bool", "Filler", "Int", "Data", "Str", "UID"}
    /\ (a.t \in {"Bool", "Int", "Data", "Str", "UID"} => a.v = b.v)

\* the indices of the pairs of the loaded Dict whose key equals the looked-up key
Matches == {j \in 1..Len(result.v.v) : EqualByValue(result.v.v[j][1], got.key)}

\* the result of the last lookup is that of a scan in stored order
C5_LookupResult ==
    (pc = "done" /\ got.res # None) =>
        IF result.v.t = "Dict" /\ Matches # {}
        THEN LET first == CHOOSE j \in Matches : \A m \in Matches : j <= m
             IN  got.res.k = "Ok" /\ Same(got.res.v, result.v.v[first][2])
        ELSE IsErr(got.res, "NotFound")

\* C5: get on a Dict returns the value of the first pair in stored order whose
\* key equals the lookup key, NotFound when no key is equal, and leaves the
\* Dict as it is
C5_GetFirstMatch ==
    []C5_LookupResult /\ [][pc = "done" => result' = result]_vars

\* a lookup found a key that the Dict holds twice, with two different values
C5_Witness ==
    /\ pc = "done" /\ got.res.k = "Ok" /\ result.v.t = "Dict"
    /\ \E j, m \in Matches : j < m /\ ~Same(result.v.v[j][2], result.v.v[m][2])

----------------------------------------------------------------------------
(* C6 *)

NeverEqual == {"Real", "Array", "Dict"}

\* the values at hand once a value is loaded: the lookup keys and, of a Dict,
\* its keys and values
ValuesAtHand ==
    LookupKeys(result.v)
    \o (IF result.v.t = "Dict"
        THEN [j \in 1..Len(result.v.v) |-> result.v.v[j][2]] ELSE <<>>)

\* C6: equality is never true when a side is a Real, an Array or a Dict, also
\* of a value and itself; get with such a key returns NotFound on every value
C6_NeverEqual ==
    (pc = "done" /\ result.k = "Ok") =>
        /\ \A i, j \in 1..Len(ValuesAtHand) :
             (ValuesAtHand[i].t \in NeverEqual \/ ValuesAtHand[j].t \in NeverEqual)
                => ~Eq(ValuesAtHand[i], ValuesAtHand[j])
        /\ (got.res # None /\ got.key.t \in NeverEqual) => IsErr(got.res, "NotFound")

\* a Dict was asked for a Real, Array or Dict that is one of its own keys
C6_Witness ==
    /\ pc = "done" /\ result.k = "Ok" /\ result.v.t = "Dict"
    /\ got.res # None /\ got.key.t \in NeverEqual
    /\ \E j \in 1..Len(result.v.v) : Same(result.v.v[j][1], got.key)

----------------------------------------------------------------------------
(* C7 *)

\* the bytes behind the marker that the object with marker byte m needs before
\* any child is decoded (escape lengths aside)
BodyBytes(m) ==
    LET tag == m \div 16
        low == m % 16
    IN  IF tag \in {1, 2} THEN Pow2(low)
        ELSE IF tag = 8 THEN low + 1
        ELSE IF low = 15 THEN 0
        ELSE IF tag \in {4, 5} THEN low
        ELSE IF tag = 6 THEN 2 * low
        ELSE IF tag = 10 THEN low * trailer.object_ref_size
        ELSE IF tag = 13 THEN 2 * low * trailer.object_ref_size
        ELSE 0

\* the file ends inside the body of the object whose marker was read last
EndsInsideBody ==
    /\ items # <<>>
    /\ trailer.object_ref_size \in 1..8
    /\ Last(items) + 1 + BodyBytes(file[Last(items) + 1]) > Len(file)

\* C7 as stated: a file that ends inside an object body makes the decode
\* fail with Error::EOF
C7_Original ==
    (pc = "done" /\ EndsInsideBody) => IsErr(result, "EOF")

----------------------------------------------------------------------------
(* C8 *)

\* C8 as stated: a date (tag 3) or set (tag 12) marker makes the decode
\* return a NotImplemented error; the process does not panic
C8_Original ==
    (pc = "done" /\ items # <<>> /\ (file[Last(items) + 1] \div 16) \in {3, 12}) =>
        IsErr(result, "NotImplemented")

----------------------------------------------------------------------------
(* C9 *)

\* the child loop of load_array / load_dict is about to resolve a reference
AtChildRef ==
    /\ pc = "decode" /\ stack # <<>> /\ Len(stack) <= MaxDepth /\ ret = None
    /\ Top.st = "kids" /\ Top.i <= Len(Top.refs)

\* one step of the child loop treats the next reference as C9 says
C9_Step ==
    AtChildRef =>
        LET objref == IF Top.half = "key" THEN Top.refs[Top.i] ELSE Top.refs2[Top.i]
        IN  IF objref \in 0..(trailer.num_objects - 1)
            THEN TableOffset(objref) < Huge =>
                   /\ pos' = TableOffset(objref)
                   /\ seeks' = Append(seeks, TableOffset(objref))
                   /\ Len(stack') = Len(stack) + 1
                   /\ stack'[Len(stack')].fn = "item"
                   /\ stack'[Len(stack')].at = TableOffset(objref)
                   /\ ret' = None
            ELSE /\ IsErr(ret', "NotFound")
                 /\ pos' = pos /\ seeks' = seeks /\ items' = items
                 /\ stack' = SubSeq(stack, 1, Len(stack) - 1)

\* C9: a child reference that is no index of the reference table makes the
\* decode fail with NotFound, with no seek and no decode for it; a reference
\* in 0..object count - 1 resolves to the offset the table holds for it
C9_References == [][C9_Step]_vars

\* load failed with NotFound after it had decoded a child
C9_Witness ==
    /\ pc = "done" /\ IsErr(result, "NotFound")
    /\ Len(items) >= 2 /\ Len(seeks) >= 5

----------------------------------------------------------------------------
(* C10 *)

Count(s, x) == Cardinality({j \in 1..Len(s) : s[j] = x})

\* the seeks of seek_ref: all but the four seeks of load itself
ChildSeeks == SubSeq(seeks, 5, Len(seeks))

\* how often the object at offset o was decoded as the escape length of the
\* object whose marker is the byte before it
EscapeDecodes(o) ==
    IF o >= 9 /\ HasLength(file[o]) /\ file[o] % 16 = 15
    THEN Count(items, o - 1) ELSE 0

\* C10 as stated: no offset is decoded by load_item more than once during
\* one load
C10_Original ==
    \A i, j \in 1..Len(items) : i # j => items[i] # items[j]

\* C10 amended: a load that returns a value has run load_item once for the
\* object at offset 8, once for every escape length and once for every child
\* reference it resolved, anew each time: an object is decoded as often as
\* references to it are reached
C10_DecodedPerReference ==
    (pc = "done" /\ result.k = "Ok") =>
        \A j \in 1..Len(items) :
            LET o == items[j]
            IN  Count(items, o) = Count(ChildSeeks, o)
                                  + (IF o = 8 THEN 1 ELSE 0) + EscapeDecodes(o)

\* a load returned a value after it had decoded one offset twice
C10_Witness ==
    /\ pc = "done" /\ result.k = "Ok"
    /\ \E i, j \in 1..Len(items) : i # j /\ items[i] = items[j]

----------------------------------------------------------------------------
(* C11 *)

\* the signed value of a 64-bit register whose upper six bytes are all 0 or
\* all 255 (the values that fit the integers of the checker)
SmallSigned(reg) ==
    IF reg[1] >= 128 THEN (reg[7] * 256 + reg[8]) - 65536
    ELSE reg[7] * 256 + reg[8]

\* load_item returned Int for the marker at offset `at`, whose low nibble is
\* in 0..3
IntReturned(j) ==
    /\ returned[j].v.t = "Int"
    /\ file[returned[j].at + 1] \div 16 = marker_INT
    /\ file[returned[j].at + 1] % 16 <= 3

\* C11: an Int marker with low nibble n in 0..3 yields Int(v), v the
\* big-endian accumulation of the 2^n bytes behind the marker: the bytes are
\* the low-order bytes of the 64-bit value, most significant first, the
\* bytes above them are 0, so that a width below 8 never gives a negative
\* value and a width of 8 gives the 64 bits as they are
C11_BigEndianInt ==
    \A j \in 1..Len(returned) :
        IntReturned(j) =>
            LET at == returned[j].at
                w == Pow2(file[at + 1] % 16)
                reg == returned[j].v.v
            IN  /\ Len(reg) = 8
                /\ \A k \in 1..w : reg[8 - w + k] = file[at + 1 + k]
                /\ \A k \in 1..(8 - w) : reg[k] = 0
                /\ w < 8 => ~IsNeg(reg)
                /\ w = 1 => SmallSigned(reg) = file[at + 2]
                /\ w = 2 => SmallSigned(reg) = file[at + 2] * 256 + file[at + 3]
                /\ w = 8 => IsNeg(reg) = (file[at + 2] >= 128)

\* load returned a tree that holds a 4-byte Int whose first byte has the top
\* bit set
C11_Witness ==
    /\ pc = "done" /\ result.k = "Ok"
    /\ \E j \in 1..Len(returned) :
           /\ IntReturned(j) /\ file[returned[j].at + 1] % 16 = 2
           /\ file[returned[j].at + 2] >= 128

----------------------------------------------------------------------------
(* C12 *)

\* as_utf16 has returned for a span of odd length
OddSpanDone == pc = "done" /\ Len(file) % 2 = 1

\* the 16-bit units of an even-length span hold a surrogate without its
\* partner
UnpairedSurrogate ==
    /\ Len(file) % 2 = 0
    /\ \E i \in 1..(Len(file) \div 2) :
          \/ /\ file[2 * i - 1] \in 216..219
             /\ \/ 2 * i + 1 > Len(file)
                \/ file[2 * i + 1] \notin 220..223
          \/ /\ file[2 * i - 1] \in 220..223
             /\ \/ i = 1
                \/ file[2 * i - 3] \notin 216..219

----------------------------------------------------------------------------
(* C13 *)

\* the file starts with "bplist00" and is shorter than the 32 bytes of a
\* trailer
ShortOfTrailer ==
    /\ Len(file) \in 8..31
    /\ SubSeq(file, 1, 8) = <<98, 112, 108, 105, 115, 116, 48, 48>>

\* C13 as stated: with a valid magic and fewer than 32 bytes for the
\* trailer, load fails with Error::EOF, builds no reference table and decodes
\* no object
C13_Original ==
    (pc = "done" /\ ShortOfTrailer) =>
        /\ IsErr(result, "EOF")
        /\ reftable = <<>>
        /\ items = <<>>

----------------------------------------------------------------------------
(* C14 *)

\* a load_item has returned an error that its caller has not yet passed on
ErrorPending == pc = "decode" /\ ret.k = "Err"

\* the step that follows a pending error hands the same error to the caller
\* one level up, or to the caller of load when no level is left, without
\* reading, seeking, decoding or returning any value
C14_Step ==
    ErrorPending =>
        /\ ret'.k = "Err" /\ ret'.e = ret.e /\ ret'.m = ret.m
        /\ items' = items /\ seeks' = seeks /\ pos' = pos
        /\ maxRead' = maxRead /\ returned' = returned
        /\ IF stack = <<>>
           THEN pc' = "done" /\ IsErr(result', ret.e) /\ result'.m = ret.m
           ELSE pc' = "decode" /\ stack' = Pop(stack) /\ result' = None

\* C14: the first error of a decode, at whatever depth, is what load
\* returns: from the error on nothing more is decoded (no sibling, no retry)
\* and no Array or Dict, partial or not, is returned
C14_FirstErrorAborts ==
    /\ [][C14_Step]_vars
    /\ [](ErrorPending => result = None)

\* a child has failed in a container that has references after it
C14_Witness ==
    /\ ErrorPending /\ stack # <<>>
    /\ Top.st = "kids" /\ Top.i < Len(Top.refs)
    /\ Len(items) >= 2

----------------------------------------------------------------------------
(* C15 *)

\* the count of references a container declares (0 for a negative count)
DeclaredCount(at) == IF Declared(at).n < 0 THEN 0 ELSE Declared(at).n

\* a container in its child loop holds every reference of its run(s), as
\* they stand in the file behind its marker and length
AllRefsRead(f) ==
    LET h == Declared(f.at)
        n == DeclaredCount(f.at)
    IN  /\ Len(f.refs) = n
        /\ \A i \in 1..n : f.refs[i] = FileRef(h.refs, i)
        /\ IF f.fn = "dict"
           THEN /\ Len(f.refs2) = n
                /\ \A i \in 1..n : f.refs2[i] = FileRef(h.refs, n + i)
           ELSE f.refs2 = <<>>

\* the load_item of a child is about to read its marker
ChildAtMarker ==
    /\ pc = "decode" /\ ret = None /\ Len(stack) >= 2
    /\ Top.fn = "item"
    /\ stack[Len(stack) - 1].st = "kids"

\* the offset the reference table holds for the reference the child loop of
\* the container f is at
LoopOffset(f) ==
    LET h == Declared(f.at)
    IN  TableOffset(FileRef(h.refs, (IF f.half = "key" THEN 0
                                     ELSE DeclaredCount(f.at)) + f.i))

\* C15: a container reads all its references before its first child is
\* decoded; each child is decoded right after a seek to the offset its
\* reference resolves to; element i of an Array is the decode of the object
\* its i-th reference names, wherever earlier siblings left the cursor
C15_RefsThenSeekEach ==
    /\ \A d \in 1..Len(stack) :
          (pc = "decode" /\ stack[d].st = "kids") => AllRefsRead(stack[d])
    /\ ChildAtMarker =>
          /\ pos = LoopOffset(stack[Len(stack) - 1])
          /\ Last(seeks) = pos
          /\ Top.at = pos
    /\ \A j \in 1..Len(returned) :
          LET a == returned[j].v
              h == Declared(returned[j].at)
          IN  (a.t = "Array" /\ h.n >= 0) =>
                  /\ Len(a.v) = h.n
                  /\ \A i \in 1..h.n :
                        DecodedAt(TableOffset(FileRef(h.refs, i)), a.v[i])

\* load returned an Array of two elements whose first element lies behind
\* the second in the file: the second was decoded after a seek backwards
C15_Witness ==
    /\ pc = "done" /\ result.k = "Ok"
    /\ result.v.t = "Array" /\ Len(result.v.v) = 2
    /\ Declared(8).n = 2
    /\ TableOffset(FileRef(Declared(8).refs, 1))
         > TableOffset(FileRef(Declared(8).refs, 2))

----------------------------------------------------------------------------
(* C16 *)

\* the child loop is at a reference that resolves to the offset of the
\* container itself or of a container around it
CycleAhead ==
    /\ AtChildRef
    /\ LET f == Top
           objref == FileRef(Declared(f.at).refs,
                             (IF f.half = "key" THEN 0
                              ELSE DeclaredCount(f.at)) + f.i)
       IN  /\ objref < trailer.num_objects
           /\ \E d \in 1..Len(stack) : stack[d].at = TableOffset(objref)

\* one offset is being decoded inside its own decode
CycleOnStack ==
    \E i, j \in 1..Len(stack) : i < j /\ stack[i].at = stack[j].at

\* a reference back to an enclosing container is followed like any other;
\* a decode that is inside itself stays so and gives load no outcome but the
\* exhaustion of the stack
C16_Step ==
    /\ CycleAhead =>
          /\ Len(stack') = Len(stack) + 1
          /\ stack'[Len(stack')].fn = "item"
          /\ stack'[Len(stack')].at = LoopOffset(Top)
          /\ items' = items /\ ret' = None /\ result' = None
          /\ CycleOnStack'
    /\ CycleOnStack =>
          /\ CycleOnStack'
          /\ result'.k \in {"None", "Abort"}

\* C16: there is no guard against reference cycles: a child reference that
\* resolves to the offset of its container or of an ancestor is decoded
\* again, and again inside that decode; the load reports no format error for
\* it and returns no value
C16_NoCycleGuard ==
    /\ [][C16_Step]_vars
    /\ [](CycleOnStack => /\ result.k \in {"None", "Abort"}
                          /\ ~IsErr(ret, "InvalidFormat"))

\* the recursion through a cycle of two containers has used up the stack
C16_Witness ==
    /\ pc = "done" /\ result.k = "Abort"
    /\ \E i \in 1..Len(stack) :
          /\ i + 2 <= Len(stack)
          /\ stack[i].at = stack[i + 2].at
          /\ stack[i].at # stack[i + 1].at

----------------------------------------------------------------------------
(* C17 *)

\* C17 as stated: a load that fails has written nothing to the standard
\* output
C17_Original ==
    (pc = "done" /\ result.k = "Err") => out = <<>>

----------------------------------------------------------------------------
(* C18 *)

\* load_item is about to read a marker of tag 0
SingleAhead ==
    /\ pc = "decode" /\ stack # <<>> /\ Len(stack) <= MaxDepth /\ ret = None
    /\ Top.fn = "item"
    /\ pos < Len(file) /\ file[pos + 1] \div 16 = marker_SINGLE

\* the marker byte, and no byte after it, is read and the call returns what
\* the low nibble stands for
C18_Step ==
    SingleAhead =>
        LET low == file[pos + 1] % 16
        IN  /\ pos' = pos + 1
            /\ maxRead' = (IF maxRead < pos + 1 THEN pos + 1 ELSE maxRead)
            /\ stack' = SubSeq(stack, 1, Len(stack) - 1)
            /\ IF low = 0 THEN ret'.k = "Ok" /\ ret'.v.t = "Null"
               ELSE IF low = 8
               THEN ret'.k = "Ok" /\ ret'.v.t = "Bool" /\ ret'.v.v = FALSE
               ELSE IF low = 9
               THEN ret'.k = "Ok" /\ ret'.v.t = "Bool" /\ ret'.v.v = TRUE
               ELSE IF low = 15 THEN ret'.k = "Ok" /\ ret'.v.t = "Filler"
               ELSE IsErr(ret', "InvalidFormat")

\* C18: for a marker of tag 0 load_single gives Null for the low nibble 0,
\* Bool(false) for 8, Bool(true) for 9, Filler for 15 and a format error for
\* each of the other twelve; it reads no byte after the marker
C18_SingleMapping == [][C18_Step]_vars

\* the marker 0x01 was decoded and the load failed with the format error of
\* load_single
C18_Witness ==
    /\ pc = "done" /\ IsErr(result, "InvalidFormat")
    /\ result.m = "invalid single byte"
    /\ items # <<>> /\ file[Last(items) + 1] = 1

----------------------------------------------------------------------------
(* C19 *)

\* the marker at offset `at` is an array or dict marker with an escape
\* length, and the object behind it is an 8-byte Int with the top bit set
NegativeCount(at) ==
    /\ file[at + 1] \in {175, 223}
    /\ at + 10 <= Len(file)
    /\ file[at + 2] = 19 /\ file[at + 3] >= 128

\* load_array / load_dict has its negative count and has not yet returned
NegativeCountAhead ==
    /\ pc = "decode" /\ stack # <<>> /\ Len(stack) <= MaxDepth /\ ret = None
    /\ Top.fn \in {"array", "dict"} /\ Top.st \in {"body", "kids"}
    /\ NegativeCount(Top.at)

\* with a negative count the reference loops read nothing and the child
\* loop returns the empty container at once
C19_Step ==
    NegativeCountAhead =>
        /\ pos' = pos /\ maxRead' = maxRead /\ seeks' = seeks /\ items' = items
        /\ result' = None /\ pc' = "decode"
        /\ IF Top.st = "body"
           THEN /\ ret' = None /\ Len(stack') = Len(stack)
                /\ stack'[Len(stack')].st = "kids"
                /\ stack'[Len(stack')].refs = <<>>
                /\ stack'[Len(stack')].refs2 = <<>>
           ELSE /\ stack' = SubSeq(stack, 1, Len(stack) - 1)
                /\ ret'.k = "Ok"
                /\ ret'.v.t = (IF Top.fn = "array" THEN "Array" ELSE "Dict")
                /\ ret'.v.v = <<>>

\* C19: an array or dict whose escape length is a negative Int reads no
\* reference and is returned as the empty Array or Dict, with no error
C19_NegativeCountIsEmpty ==
    /\ [][C19_Step]_vars
    /\ []((pc = "done" /\ Len(file) >= 18 /\ NegativeCount(8)
           /\ SubSeq(file, 1, 8) = <<98, 112, 108, 105, 115, 116, 48, 48>>
           /\ items # <<>>) =>
             /\ result.k = "Ok"
             /\ result.v.t = (IF file[9] = 175 THEN "Array" ELSE "Dict")
             /\ result.v.v = <<>>
             /\ items = <<8, 9>> /\ pos = 18)

\* load returned the empty Dict for a root dict whose count is -1 and whose
\* marker is followed by references
C19_Witness ==
    /\ pc = "done" /\ result.k = "Ok" /\ result.v.t = "Dict"
    /\ result.v.v = <<>>
    /\ NegativeCount(8) /\ file[11] = 255
    /\ trailer.object_ref_size >= 1

----------------------------------------------------------------------------
(* C20 *)

\* the trailer was read and one of its two widths is greater than 8
WideTrailer ==
    \/ trailer.offset_table_offset_size > 8
    \/ trailer.object_ref_size > 8

\* C20 as stated: whatever the trailer holds, load ends with a value or an
\* error value; a width greater than 8 does not make the process panic
C20_Original ==
    (pc = "done" /\ WideTrailer) => result.k \in {"Ok", "Err"}

----------------------------------------------------------------------------
(* C21 *)

\* load has returned to its caller: the tree, or an error value
LoadReturned == pc = "done" /\ result.k \in {"Ok", "Err"}

\* C21 as stated: a load that never reaches an object that is already being
\* decoded eventually returns the full tree or an error
C21_Original == <>(CycleOnStack \/ LoadReturned)

\* what does hold: a load that never reaches an object that is already
\* being decoded comes to an end, by a return or by the end of the process
AcyclicLoadEnds == <>(CycleOnStack \/ pc = "done")

\* the depth the model follows is not what ends a load without a cycle
OverflowOnlyByCycle ==
    (pc = "done" /\ result.k = "Abort" /\ result.m = "stack overflow") =>
        CycleOnStack

\* every step of load moves the thread
LoadStepMoves == [][LoadStep => ctl' # ctl]_vars

====
